---- MODULE Spec2Model ----
(***************************************************************************)
(* Model of the JWT authentication core of mundonegocio-backend            *)
(* (src/api/routes/auth.py): login, refresh, logout, change-password,      *)
(* get_current_user and the role checker, over a clock and the user table. *)
(* Times are whole seconds since the epoch of the run: python-jose encodes *)
(* datetime claims as integer seconds and compares them to the integer     *)
(* second of the decode. The texts of the error details are written        *)
(* without their accents ("invalido" for "inválido").                      *)
(***************************************************************************)
EXTENDS Integers, FiniteSets, Sequences, TLC

VARIABLES
    now,        \* datetime.utcnow(), in whole seconds
    users_db,   \* the user table read by login (email -> stored record)
    issued,     \* every token the server has signed so far
    sessions,   \* history: the token pairs handed out by login, each with
                \* the stored record it was issued for
    loggedOut,  \* history: refresh tokens of the sessions that logged out
    pwChanged,  \* history: refresh tokens outstanding at a password change
    minted,     \* history: the access tokens handed out by refresh, each
                \* with the refresh token it was handed out for
    nextJti,    \* source of the fresh jti of the next refresh token
    ticks,      \* number of clock steps taken (bounds the run)
    resp        \* the last request and the response it got

vars == <<now, users_db, issued, sessions, loggedOut, pwChanged, minted,
          nextJti, ticks, resp>>

----------------------------------------------------------------------------
(* Bounds of the model *)

MaxTicks == 3
MaxLogins == 1
MaxTokens == 3
MaxStoreChanges == 1

----------------------------------------------------------------------------
(* Program constants *)

access_token_expire_minutes == 30
RefreshTokenDays == 30

AccessLifetime == access_token_expire_minutes * 60
RefreshLifetime == RefreshTokenDays * 86400

\* payload.get(k) of a missing key
None == "None"

HTTP_400_BAD_REQUEST == 400
HTTP_401_UNAUTHORIZED == 401
HTTP_403_FORBIDDEN == 403
HTTP_500_INTERNAL_SERVER_ERROR == 500

\* The members of the role enumeration the handlers name: UserRole.ADMIN and
\* the default "user".
UserRole == {"admin", "user"}

\* dict.get(key, default)
Get(d, k, default) == IF k \in DOMAIN d THEN d[k] ELSE default

\* dict.update / merge: the entries of e override those of d
Update(d, e) ==
    [k \in DOMAIN d \cup DOMAIN e |-> IF k \in DOMAIN e THEN e[k] ELSE d[k]]

----------------------------------------------------------------------------
(* Password hashing *)

\* pwd_context.hash: a one-way digest of the password, not the password
get_password_hash(password) == <<"bcrypt", password>>

\* pwd_context.verify
verify_password(plain_password, hashed_password) ==
    hashed_password = get_password_hash(plain_password)

----------------------------------------------------------------------------
(* The user table of login *)

AdminEmail == "admin@mundonegocio.com"
VendedorEmail == "vendedor@mundonegocio.com"
GhostEmail == "ghost@example.com"

InitialUsers ==
    (AdminEmail :> [id |-> "1", email |-> AdminEmail,
                    hashed_password |-> get_password_hash("admin123"),
                    full_name |-> "Administrador Sistema",
                    role |-> "admin", country |-> "peru", is_active |-> TRUE])
    @@
    (VendedorEmail :> [id |-> "2", email |-> VendedorEmail,
                       hashed_password |-> get_password_hash("vendedor123"),
                       full_name |-> "Vendedor Demo",
                       role |-> "user", country |-> "peru", is_active |-> TRUE])

\* Request inputs
Emails == {AdminEmail, VendedorEmail, GhostEmail}
Passwords == {"admin123", "vendedor123", "wrong"}
NewPasswords == {"nueva123"}

----------------------------------------------------------------------------
(* Tokens *)

\* jwt.encode with the server's key: the claims under a valid signature
Encode(claims) == [payload |-> claims, sig |-> "valid"]

\* A token whose payload or signature was altered after signing
Tamper(token) == [token EXCEPT !.sig = "invalid"]

\* A string that is no JWT at all
Malformed == [payload |-> [sub |-> None], sig |-> "invalid"]

create_access_token(data, t) ==
    Encode(Update(data, [exp |-> t + AccessLifetime, iat |-> t, type |-> "access"]))

create_refresh_token(data, t, jti) ==
    Encode(Update(data, [exp |-> t + RefreshLifetime, iat |-> t,
                         type |-> "refresh", jti |-> jti]))

\* The HTTPException raised by a handler
HTTPException(status_code, detail) ==
    [ok |-> FALSE, status |-> status_code, detail |-> detail]

\* An exception no handler catches: error_handler_middleware answers 500
ServerError == HTTPException(HTTP_500_INTERNAL_SERVER_ERROR, "Internal server error")

InvalidOrExpired == HTTPException(HTTP_401_UNAUTHORIZED, "Token invalido o expirado")
InvalidTokenType == HTTPException(HTTP_401_UNAUTHORIZED, "Token type invalido")
InvalidSubject == HTTPException(HTTP_401_UNAUTHORIZED, "Token invalido")

\* jose's check of the exp claim: expired when exp < now
Expired(payload, t) == payload.exp < t

\* decode_token without the expiry check of the codec
decode_token_NoExpiry(token, t) ==
    IF token.sig # "valid" THEN InvalidOrExpired
    ELSE [ok |-> TRUE, payload |-> token.payload]

\* decode_token: the payload, or 401 for any JWTError (bad signature,
\* malformed token, expired signature alike)
decode_token(token, t) ==
    IF token.sig # "valid" THEN InvalidOrExpired
    ELSE IF Expired(token.payload, t) THEN InvalidOrExpired
    ELSE [ok |-> TRUE, payload |-> token.payload]

----------------------------------------------------------------------------
(* The models of the responses *)

\* int(...) of the strings the user table stores as ids
IntOf == ("1" :> 1) @@ ("2" :> 2)

\* class User(BaseModel): the declared fields are id: int, email, full_name
\* and is_active; a keyword that is no declared field (role, country) is
\* ignored, and a value of the wrong type fails validation.
User(kw) ==
    IF \/ Get(kw, "id", None) \notin DOMAIN IntOf
       \/ Get(kw, "email", None) = None
       \/ Get(kw, "full_name", None) = None
    THEN [ok |-> FALSE]
    ELSE [ok |-> TRUE,
          user |-> [id |-> IntOf[kw.id], email |-> kw.email,
                    full_name |-> kw.full_name,
                    is_active |-> Get(kw, "is_active", TRUE)]]

\* class TokenResponse(BaseModel): access_token, refresh_token, token_type;
\* other keywords (expires_in, user) are ignored.
TokenResponse(kw) ==
    [access_token |-> kw.access_token, refresh_token |-> kw.refresh_token,
     token_type |-> Get(kw, "token_type", "bearer")]

----------------------------------------------------------------------------
(* Dependencies *)

\* get_current_user refusing the access token of a session that logged out
get_current_user_AfterLogout(token, t) ==
    LET dec == decode_token(token, t) IN
    IF ~dec.ok THEN dec
    ELSE LET payload == dec.payload IN
    IF \E s \in sessions : s.access = token /\ s.refresh \in loggedOut
    THEN InvalidOrExpired
    ELSE IF Get(payload, "type", None) # "access" THEN InvalidTokenType
    ELSE IF Get(payload, "sub", None) = None THEN InvalidSubject
    ELSE IF Get(payload, "role", "user") \notin UserRole THEN ServerError
    ELSE LET u == User([id |-> Get(payload, "user_id", None),
                        email |-> payload.sub,
                        full_name |-> Get(payload, "name", None),
                        role |-> Get(payload, "role", "user"),
                        country |-> Get(payload, "country", None),
                        is_active |-> TRUE]) IN
         IF ~u.ok THEN ServerError
         ELSE [ok |-> TRUE, status |-> 200, user |-> u.user]

get_current_user(token, t) ==
    LET dec == decode_token(token, t) IN
    IF ~dec.ok THEN dec
    ELSE LET payload == dec.payload IN
    IF Get(payload, "type", None) # "access" THEN InvalidTokenType
    ELSE IF Get(payload, "sub", None) = None THEN InvalidSubject
    ELSE IF Get(payload, "role", "user") \notin UserRole THEN ServerError
    ELSE LET u == User([id |-> Get(payload, "user_id", None),
                        email |-> payload.sub,
                        full_name |-> Get(payload, "name", None),
                        role |-> Get(payload, "role", "user"),
                        country |-> Get(payload, "country", None),
                        is_active |-> TRUE]) IN
         IF ~u.ok THEN ServerError
         ELSE [ok |-> TRUE, status |-> 200, user |-> u.user]

get_current_active_user(token, t) ==
    LET cur == get_current_user(token, t) IN
    IF ~cur.ok THEN cur
    ELSE IF ~cur.user.is_active
         THEN HTTPException(HTTP_400_BAD_REQUEST, "Usuario inactivo")
    ELSE cur

Forbidden ==
    HTTPException(HTTP_403_FORBIDDEN, "No tienes permisos para esta operacion")

\* role_checker of require_role(required_role): current_user.role is read
\* from the User object, which has the attribute only if the model kept it.
role_checker(token, required_role, t) ==
    LET cur == get_current_active_user(token, t) IN
    IF ~cur.ok THEN cur
    ELSE IF "role" \notin DOMAIN cur.user THEN ServerError
    ELSE IF cur.user.role # required_role /\ cur.user.role # "admin"
         THEN Forbidden
    ELSE cur

----------------------------------------------------------------------------
(* Endpoints, as functions of the request, the user table and the clock *)

InvalidCredentials ==
    HTTPException(HTTP_401_UNAUTHORIZED, "Email o contrasena incorrectos")

InactiveUser == HTTPException(HTTP_400_BAD_REQUEST, "Usuario inactivo")

\* user_dict without its hashed_password
PublicFields(user_dict) ==
    [k \in DOMAIN user_dict \ {"hashed_password"} |-> user_dict[k]]

\* login with an error of its own for an unknown email
login_RevealsAbsent(email, password, db, t, jti) ==
    IF email \notin DOMAIN db
    THEN HTTPException(HTTP_401_UNAUTHORIZED, "Usuario no encontrado")
    ELSE IF ~verify_password(password, db[email].hashed_password)
    THEN InvalidCredentials
    ELSE InactiveUser

\* login testing the status of the record before the secret
login_StatusFirst(email, password, db, t, jti) ==
    IF email \notin DOMAIN db THEN InvalidCredentials
    ELSE IF ~db[email].is_active THEN InactiveUser
    ELSE IF ~verify_password(password, db[email].hashed_password)
    THEN InvalidCredentials
    ELSE LET user_dict == db[email] IN
         [ok |-> TRUE, status |-> 200,
          body |-> TokenResponse(
              [access_token |->
                   create_access_token(
                       [sub |-> user_dict.email, user_id |-> user_dict.id,
                        name |-> user_dict.full_name, role |-> user_dict.role,
                        country |-> user_dict.country], t),
               refresh_token |->
                   create_refresh_token([sub |-> user_dict.email], t, jti),
               token_type |-> "bearer"])]

\* POST /login
login(email, password, db, t, jti) ==
    IF \/ email \notin DOMAIN db
       \/ ~verify_password(password, db[email].hashed_password)
    THEN InvalidCredentials
    ELSE LET user_dict == db[email] IN
    IF ~user_dict.is_active THEN InactiveUser
    ELSE LET token_data == [sub |-> user_dict.email, user_id |-> user_dict.id,
                            name |-> user_dict.full_name,
                            role |-> user_dict.role,
                            country |-> user_dict.country]
             access_token == create_access_token(token_data, t)
             refresh == create_refresh_token([sub |-> user_dict.email], t, jti)
             user == User(PublicFields(user_dict))
         IN IF ~user.ok THEN ServerError
            ELSE [ok |-> TRUE, status |-> 200,
                  body |-> TokenResponse(
                      [access_token |-> access_token, refresh_token |-> refresh,
                       token_type |-> "bearer",
                       expires_in |-> access_token_expire_minutes * 60,
                       user |-> user.user])]

\* refresh without the check of the token's type
refresh_token_NoTypeCheck(token, t) ==
    LET dec == decode_token(token, t) IN
    IF ~dec.ok THEN dec
    ELSE [ok |-> TRUE, status |-> 200,
          body |-> TokenResponse(
              [access_token |->
                   create_access_token([sub |-> Get(dec.payload, "sub", None)], t),
               refresh_token |-> token, token_type |-> "bearer"])]

\* refresh accepting a refresh token whatever its expiry
refresh_token_NoExpiry(token, t) ==
    LET dec == decode_token_NoExpiry(token, t) IN
    IF ~dec.ok THEN dec
    ELSE LET payload == dec.payload IN
    IF Get(payload, "type", None) # "refresh" THEN InvalidTokenType
    ELSE [ok |-> TRUE, status |-> 200,
          body |-> TokenResponse(
              [access_token |->
                   create_access_token([sub |-> Get(payload, "sub", None)], t),
               refresh_token |-> token, token_type |-> "bearer"])]

\* POST /refresh
refresh_token(token, t) ==
    LET dec == decode_token(token, t) IN
    IF ~dec.ok THEN dec
    ELSE LET payload == dec.payload IN
    IF Get(payload, "type", None) # "refresh" THEN InvalidTokenType
    ELSE LET token_data == [sub |-> Get(payload, "sub", None)]
             access_token == create_access_token(token_data, t)
         IN [ok |-> TRUE, status |-> 200,
             body |-> TokenResponse(
                 [access_token |-> access_token, refresh_token |-> token,
                  token_type |-> "bearer",
                  expires_in |-> access_token_expire_minutes * 60])]

\* POST /logout
logout(token, t) ==
    LET cur == get_current_active_user(token, t) IN
    IF ~cur.ok THEN cur
    ELSE [ok |-> TRUE, status |-> 200,
          body |-> [message |-> "Sesion cerrada exitosamente"]]

\* GET /me
get_me(token, t) == get_current_active_user(token, t)

\* POST /change-password
change_password(current_password, new_password, token, t) ==
    LET cur == get_current_active_user(token, t) IN
    IF ~cur.ok THEN cur
    ELSE [ok |-> TRUE, status |-> 200,
          body |-> [message |-> "Contrasena cambiada exitosamente"]]

----------------------------------------------------------------------------
(* The state machine *)

NoRequest == [op |-> "none"]

\* What a client can put in a request: a token the server issued, the access
\* token of a session altered, or a string that is no token.
Presentable ==
    issued \cup {Tamper(s.access) : s \in sessions} \cup {Malformed}

RefreshTokensOf(email) ==
    {k \in issued : k.payload.type = "refresh" /\ k.payload.sub = email}

Init ==
    /\ now = 0
    /\ users_db = InitialUsers
    /\ issued = {}
    /\ sessions = {}
    /\ loggedOut = {}
    /\ pwChanged = {}
    /\ minted = {}
    /\ nextJti = 1
    /\ ticks = 0
    /\ resp = NoRequest

Login(email, password) ==
    /\ resp = NoRequest
    /\ nextJti <= MaxLogins
    /\ LET res == login(email, password, users_db, now, nextJti) IN
       /\ resp' = [op |-> "login", email |-> email, password |-> password,
                   res |-> res]
       /\ IF res.ok
          THEN /\ issued' = issued \cup {res.body.access_token,
                                          res.body.refresh_token}
               /\ sessions' = sessions \cup
                      {[access |-> res.body.access_token,
                        refresh |-> res.body.refresh_token,
                        record |-> PublicFields(users_db[email])]}
               /\ nextJti' = nextJti + 1
          ELSE UNCHANGED <<issued, sessions, nextJti>>
    /\ UNCHANGED <<now, users_db, loggedOut, pwChanged, minted, ticks>>

Refresh(token) ==
    /\ resp = NoRequest
    /\ Cardinality(issued) < MaxTokens
    /\ LET res == refresh_token(token, now) IN
       /\ resp' = [op |-> "refresh", token |-> token, res |-> res]
       /\ issued' = IF res.ok THEN issued \cup {res.body.access_token}
                    ELSE issued
       /\ minted' = IF res.ok
                    THEN minted \cup {[access |-> res.body.access_token,
                                       refresh |-> res.body.refresh_token]}
                    ELSE minted
    /\ UNCHANGED <<now, users_db, sessions, loggedOut, pwChanged, nextJti,
                   ticks>>

Authenticate(token) ==
    /\ resp = NoRequest
    /\ resp' = [op |-> "authenticate", token |-> token,
                res |-> get_me(token, now)]
    /\ UNCHANGED <<now, users_db, issued, sessions, loggedOut, pwChanged,
                   minted, nextJti, ticks>>

Require(token, required_role) ==
    /\ resp = NoRequest
    /\ resp' = [op |-> "require", token |-> token, role |-> required_role,
                res |-> role_checker(token, required_role, now)]
    /\ UNCHANGED <<now, users_db, issued, sessions, loggedOut, pwChanged,
                   minted, nextJti, ticks>>

\* The client of session s logs out, presenting the session's access token.
Logout(s) ==
    /\ resp = NoRequest
    /\ LET res == logout(s.access, now) IN
       /\ resp' = [op |-> "logout", token |-> s.access, res |-> res]
       /\ loggedOut' = IF res.ok THEN loggedOut \cup {s.refresh}
                       ELSE loggedOut
    /\ UNCHANGED <<now, users_db, issued, sessions, pwChanged, minted,
                   nextJti, ticks>>

\* The client of session s changes the password of its principal.
ChangePassword(s, current_password, new_password) ==
    /\ resp = NoRequest
    /\ LET res == change_password(current_password, new_password,
                                  s.access, now) IN
       /\ resp' = [op |-> "change_password", token |-> s.access, res |-> res]
       /\ pwChanged' = IF res.ok
                       THEN pwChanged \cup RefreshTokensOf(s.access.payload.sub)
                       ELSE pwChanged
    /\ UNCHANGED <<now, users_db, issued, sessions, loggedOut, minted,
                   nextJti, ticks>>

\* Time passes: a second, an access lifetime or a refresh lifetime. The
\* clock of the model starts at the first token: the handlers depend on the
\* time only through the tokens they are given.
Tick(d) ==
    /\ resp = NoRequest
    /\ ticks < MaxTicks
    /\ issued # {}
    /\ now' = now + d
    /\ ticks' = ticks + 1
    /\ UNCHANGED <<users_db, issued, sessions, loggedOut, pwChanged,
                   minted, nextJti, resp>>

\* In how many fields a user table differs from the one the code starts with
StoreChanges(db) ==
    Cardinality({x \in (DOMAIN db) \X {"is_active", "role"} :
                    db[x[1]][x[2]] # InitialUsers[x[1]][x[2]]})

\* The owner of the user table changes the status or the role of a record.
StoreUpdate(email, active, role) ==
    /\ resp = NoRequest
    /\ users_db' = [users_db EXCEPT ![email].is_active = active,
                                    ![email].role = role]
    /\ users_db' # users_db
    /\ StoreChanges(users_db') <= MaxStoreChanges
    /\ UNCHANGED <<now, issued, sessions, loggedOut, pwChanged, minted,
                   nextJti, ticks, resp>>

\* The response reaches the client; the server is ready for the next request.
Deliver ==
    /\ resp # NoRequest
    /\ resp' = NoRequest
    /\ UNCHANGED <<now, users_db, issued, sessions, loggedOut, pwChanged,
                   minted, nextJti, ticks>>

Next ==
    \/ \E email \in Emails, password \in Passwords : Login(email, password)
    \/ \E token \in Presentable : Refresh(token)
    \/ \E token \in Presentable : Authenticate(token)
    \/ \E token \in Presentable, r \in UserRole : Require(token, r)
    \/ \E s \in sessions : Logout(s)
    \/ \E s \in sessions, cur \in Passwords, new \in NewPasswords :
           ChangePassword(s, cur, new)
    \/ \E d \in {1, AccessLifetime, RefreshLifetime} : Tick(d)
    \/ \E email \in DOMAIN users_db, active \in BOOLEAN, role \in UserRole :
           StoreUpdate(email, active, role)
    \/ Deliver

Spec == Init /\ [][Next]_vars

\* The token endpoints alone. Logout, ChangePassword and StoreUpdate change
\* only users_db and the history variables, which decode_token,
\* get_current_user, role_checker and refresh_token never read.
NextTokens ==
    \/ \E email \in Emails, password \in Passwords : Login(email, password)
    \/ \E token \in Presentable : Refresh(token)
    \/ \E token \in Presentable : Authenticate(token)
    \/ \E token \in Presentable, r \in UserRole : Require(token, r)
    \/ \E d \in {1, AccessLifetime, RefreshLifetime} : Tick(d)
    \/ Deliver

SpecTokens == Init /\ [][NextTokens]_vars

\* The login endpoint over a user table that changes.
NextLogin ==
    \/ \E email \in Emails, password \in Passwords : Login(email, password)
    \/ \E d \in {1, AccessLifetime, RefreshLifetime} : Tick(d)
    \/ \E email \in DOMAIN users_db, active \in BOOLEAN, role \in UserRole :
           StoreUpdate(email, active, role)
    \/ Deliver

SpecLogin == Init /\ [][NextLogin]_vars

\* Sessions that log out: login, refresh, logout and the authenticated
\* endpoint, over the clock.
NextLogout ==
    \/ \E email \in Emails, password \in Passwords : Login(email, password)
    \/ \E token \in Presentable : Refresh(token)
    \/ \E token \in Presentable : Authenticate(token)
    \/ \E s \in sessions : Logout(s)
    \/ \E d \in {1, AccessLifetime, RefreshLifetime} : Tick(d)
    \/ Deliver

SpecLogout == Init /\ [][NextLogout]_vars

----------------------------------------------------------------------------
(* Properties *)

\* The token of the last request carries the server's signature
Signed(token) == token.sig = "valid"

\* The request just answered was op, made with a token the server signed
Answered(op) == resp.op = op /\ Signed(resp.token)

\* C1: once a session has logged out, every refresh with that session's
\* refresh token is rejected and yields no new access token.
C1_LogoutRevokes ==
    (resp.op = "refresh" /\ resp.token \in loggedOut) => ~resp.res.ok

\* C2: neither login nor refresh issues an access token for a principal that
\* is absent from the user table or inactive at the time of the call.
C2_NoTokenForInactive ==
    /\ (resp.op = "login" /\ resp.res.ok) =>
           /\ resp.email \in DOMAIN users_db
           /\ users_db[resp.email].is_active
    /\ (resp.op = "refresh" /\ resp.res.ok) =>
           /\ resp.token.payload.sub \in DOMAIN users_db
           /\ users_db[resp.token.payload.sub].is_active

\* A token with the server's signature whose expiry lies in the future
Unexpired(token) == Signed(token) /\ token.payload.exp > now

\* C3: a validly signed, unexpired access token given to refresh, and a
\* validly signed, unexpired refresh token given to get_current_user, are
\* rejected with the wrong-token-type error, which is not the invalid-token
\* error; the step issues no token and returns no principal.
C3_WrongTokenType ==
    [][/\ (/\ resp'.op = "refresh" /\ resp.op = "none"
           /\ Signed(resp'.token) /\ resp'.token.payload.exp > now'
           /\ resp'.token.payload.type = "access")
          => /\ resp'.res = InvalidTokenType
             /\ resp'.res # InvalidOrExpired
             /\ issued' = issued
       /\ (/\ resp'.op = "authenticate" /\ resp.op = "none"
           /\ Signed(resp'.token) /\ resp'.token.payload.exp > now'
           /\ resp'.token.payload.type = "refresh")
          => /\ resp'.res = InvalidTokenType
             /\ resp'.res # InvalidOrExpired
             /\ "user" \notin DOMAIN resp'.res
             /\ issued' = issued]_vars

C3_Witness ==
    /\ resp.op = "refresh"
    /\ Unexpired(resp.token)
    /\ resp.token.payload.type = "access"
    /\ resp.res = InvalidTokenType

\* The request just answered presented a validly signed token whose expiry
\* is earlier than the current time
ExpiredTokenPresented ==
    /\ resp.op \in {"authenticate", "refresh"}
    /\ Signed(resp.token)
    /\ resp.token.payload.exp < now

\* C4 as stated: an expired, validly signed token is rejected with an error
\* distinguishable from the one a bad signature gets.
C4_ExpiredIsDistinctKind ==
    ExpiredTokenPresented =>
        /\ ~resp.res.ok
        /\ resp.res # decode_token(Tamper(resp.token), now)

\* C4 as amended: an expired, validly signed token is rejected with the
\* 401 "Token invalido o expirado" error, the same error value a bad
\* signature or a malformed token gets.
C4_ExpiredRejectedAsInvalid ==
    ExpiredTokenPresented =>
        /\ ~resp.res.ok
        /\ resp.res = InvalidOrExpired
        /\ resp.res = decode_token(Tamper(resp.token), now)
        /\ resp.res = decode_token(Malformed, now)

C4_Witness ==
    /\ ExpiredTokenPresented
    /\ resp.op = "authenticate"
    /\ resp.token.payload.type = "access"
    /\ resp.res = InvalidOrExpired

\* The login just answered named an email the user table does not hold
AbsentLogin(email) == email \notin DOMAIN users_db

\* The login named a stored email with a secret that is not the stored one
WrongSecretLogin(email, password) ==
    /\ email \in DOMAIN users_db
    /\ users_db[email].hashed_password # get_password_hash(password)

\* C5: the error a login with an unknown email gets and the error a login
\* with a stored email and a wrong secret gets are the same value.
C5_EnumerationSafe ==
    /\ (resp.op = "login" /\ AbsentLogin(resp.email)) =>
           /\ ~resp.res.ok
           /\ \A e \in Emails, pw \in Passwords :
                  WrongSecretLogin(e, pw) =>
                      login(e, pw, users_db, now, nextJti) = resp.res
    /\ (resp.op = "login" /\ WrongSecretLogin(resp.email, resp.password)) =>
           /\ ~resp.res.ok
           /\ \A e \in Emails, pw \in Passwords :
                  AbsentLogin(e) =>
                      login(e, pw, users_db, now, nextJti) = resp.res

C5_Witness ==
    /\ resp.op = "login"
    /\ AbsentLogin(resp.email)
    /\ resp.res = InvalidCredentials

\* C6: get_current_user on the access token of a login, before its expiry,
\* returns a principal whose identifier, name, role and region are those of
\* the stored record the login matched.
C6_LoginPrincipal ==
    \A s \in sessions :
        (resp.op = "authenticate" /\ resp.token = s.access /\ Unexpired(s.access))
        => /\ resp.res.ok
           /\ resp.res.user.email = s.record.email
           /\ resp.res.user.full_name = s.record.full_name
           /\ "role" \in DOMAIN resp.res.user
           /\ resp.res.user.role = s.record.role
           /\ "country" \in DOMAIN resp.res.user
           /\ resp.res.user.country = s.record.country

\* C7: the access token of a successful refresh carries the identifier,
\* name, role and region the user table holds for the principal at the
\* time of the refresh.
C7_RefreshFromCurrentState ==
    (resp.op = "refresh" /\ resp.res.ok) =>
        LET claims == resp.res.body.access_token.payload IN
        /\ claims.sub \in DOMAIN users_db
        /\ Get(claims, "user_id", None) = users_db[claims.sub].id
        /\ Get(claims, "name", None) = users_db[claims.sub].full_name
        /\ Get(claims, "role", None) = users_db[claims.sub].role
        /\ Get(claims, "country", None) = users_db[claims.sub].country

\* C8: for an authenticated principal with role p and a required role r,
\* the role checker allows the request iff p = r or p = admin, and
\* otherwise answers Forbidden.
C8_RoleCheck ==
    (resp.op = "require" /\ get_current_active_user(resp.token, now).ok) =>
        LET role == Get(resp.token.payload, "role", "user") IN
        IF role = resp.role \/ role = "admin"
        THEN resp.res.ok
        ELSE resp.res = Forbidden

\* C9: after a successful change of password, every refresh token issued
\* to that principal before the change is rejected by refresh.
C9_PasswordChangeRevokes ==
    (resp.op = "refresh" /\ resp.token \in pwChanged) => ~resp.res.ok

\* C10: no issued token is accepted at or after its expiry; an access token
\* is accepted only within [iat, iat + access lifetime), a refresh token
\* only while unexpired and unrevoked.
C10_NothingOutlivesExpiry ==
    /\ (/\ resp.op \in {"authenticate", "refresh"}
        /\ resp.token \in issued
        /\ resp.token.payload.exp <= now)
       => ~resp.res.ok
    /\ (resp.op = "authenticate" /\ resp.res.ok) =>
           /\ resp.token.payload.iat <= now
           /\ now < resp.token.payload.iat + AccessLifetime
    /\ (resp.op = "refresh" /\ resp.res.ok) =>
           /\ now < resp.token.payload.exp
           /\ resp.token \notin loggedOut \cup pwChanged

\* C11: the response of a successful login holds the access token, the
\* refresh token, the token-type marker and the access token's expiry in
\* seconds, which is the configured access lifetime in minutes times 60.
C11_LoginResponseFields ==
    (resp.op = "login" /\ resp.res.ok) =>
        /\ {"access_token", "refresh_token", "token_type", "expires_in"}
               \subseteq DOMAIN resp.res.body
        /\ resp.res.body.token_type = "bearer"
        /\ resp.res.body.expires_in = access_token_expire_minutes * 60

\* C12: a logout changes the answer of get_current_user for no access token
\* issued before it, and the access token of a session that has logged out
\* still authenticates at every time before its expiry.
C12_LogoutLeavesAccessTokens ==
    [][/\ (resp'.op = "logout" /\ resp.op = "none" /\ resp'.res.ok) =>
            \A k \in issued :
                k.payload.type = "access" => get_me(k, now)' = get_me(k, now)
       /\ \A s \in sessions :
            (/\ resp'.op = "authenticate" /\ resp.op = "none"
             /\ resp'.token = s.access
             /\ s.refresh \in loggedOut
             /\ s.access.payload.exp > now')
            => /\ resp'.res.ok
               /\ resp'.res.user.email = s.record.email]_vars

C12_Witness ==
    \E s \in sessions :
        /\ resp.op = "authenticate"
        /\ resp.token = s.access
        /\ s.refresh \in loggedOut
        /\ now > s.access.payload.iat
        /\ s.access.payload.exp > now
        /\ resp.res.ok

\* C13: for a stored record whose status is inactive, a login with the
\* right secret is answered AccountInactive, which is not the
\* invalid-credentials error, and issues no token; a login with a wrong
\* secret is answered with the invalid-credentials error.
C13_InactiveAfterSecret ==
    [][(/\ resp'.op = "login" /\ resp.op = "none"
        /\ resp'.email \in DOMAIN users_db
        /\ ~users_db[resp'.email].is_active)
       => IF users_db[resp'.email].hashed_password
                 = get_password_hash(resp'.password)
          THEN /\ resp'.res = InactiveUser
               /\ resp'.res # InvalidCredentials
               /\ issued' = issued
          ELSE /\ resp'.res = InvalidCredentials
               /\ issued' = issued]_vars

C13_Witness ==
    /\ resp.op = "login"
    /\ resp.email \in DOMAIN users_db
    /\ ~users_db[resp.email].is_active
    /\ users_db[resp.email].hashed_password = get_password_hash(resp.password)
    /\ resp.res = InactiveUser

\* The access tokens obtained in session s: the one of the login and those
\* refresh handed out for the session's refresh token
Obtained(s) ==
    {s.access} \cup {m.access : m \in {x \in minted : x.refresh = s.refresh}}

\* The time after which nothing of session s is accepted: the time of the
\* login plus the refresh lifetime plus the access lifetime
SessionEnd(s) == s.refresh.payload.iat + RefreshLifetime + AccessLifetime

\* C14: every access token obtained in a session, from its login or from a
\* refresh with its refresh token, is rejected as expired by
\* get_current_user at every time later than the login time plus the
\* refresh lifetime plus the access lifetime; refresh hands back the refresh
\* token it was given and mints nothing once that token has expired.
C14_SessionLifetimeBounded ==
    /\ \A s \in sessions :
           (/\ resp.op = "authenticate"
            /\ resp.token \in Obtained(s)
            /\ now > SessionEnd(s))
           => /\ ~resp.res.ok
              /\ resp.res = InvalidOrExpired
    /\ \A s \in sessions :
           s.refresh.payload.exp = s.refresh.payload.iat + RefreshLifetime
    /\ (resp.op = "refresh" /\ resp.res.ok) =>
           /\ resp.res.body.refresh_token = resp.token
           /\ now <= resp.token.payload.exp
           /\ resp.res.body.access_token.payload.exp = now + AccessLifetime

C14_Witness ==
    \E s \in sessions :
        /\ resp.op = "authenticate"
        /\ resp.token \in Obtained(s) \ {s.access}
        /\ now > SessionEnd(s)
        /\ resp.res = InvalidOrExpired

====
